---- MODULE Spec2Model ----
(***************************************************************************)
(* Model of mygrid_pv (src/src/main.rs): the four transformation stages    *)
(* smooth, stretch, interpolate and normalize over Vec<PlotData>, the      *)
(* pipeline main() runs over them, and a unit-level harness that applies   *)
(* each stage to an arbitrary bounded vector.                              *)
(*                                                                         *)
(* f64 values are modelled as exact rationals in lowest terms extended by  *)
(* NaN, +Inf and -Inf with the IEEE-754 rules for the operations the code  *)
(* uses (x/0, 0*Inf, Inf-Inf, NaN-ignoring max/min, round half away from   *)
(* zero, saturating `as u32`).  Signed zeros and the last-bit rounding of  *)
(* finite results are not modelled.  A Rust panic (index out of bounds,    *)
(* usize underflow) is the outcome "panic".                                *)
(***************************************************************************)
EXTENDS Integers, Sequences, FiniteSets, TLC

VARIABLES plt, arg, fn, outcome, pc

vars == <<plt, arg, fn, outcome, pc>>

\* ---------------------------------------------------------------- bounds
MaxLen == 3
MaxMinute == 3
MaxRecords == 3

\* ------------------------------------------------------ program constants
DayEnd == 1439
MinutesPerHour == 60

\* ------------------------------------------------------------ f64 algebra
Abs(n) == IF n < 0 THEN 0 - n ELSE n

RECURSIVE Gcd(_, _)
Gcd(a, b) == IF b = 0 THEN a ELSE Gcd(b, a % b)

NaN == [k |-> "nan", n |-> 0, d |-> 1]
PInf == [k |-> "inf", n |-> 1, d |-> 1]
NInf == [k |-> "inf", n |-> 0 - 1, d |-> 1]

\* the rational n/d (d > 0) in lowest terms
Fin(n, d) ==
    LET g == Gcd(Abs(n), d)
    IN  IF n = 0 THEN [k |-> "fin", n |-> 0, d |-> 1]
        ELSE [k |-> "fin", n |-> n \div g, d |-> d \div g]

F(n) == [k |-> "fin", n |-> n, d |-> 1]

IsFinite(a) == a.k = "fin"
IsNaN(a) == a.k = "nan"

Sign(n) == IF n < 0 THEN 0 - 1 ELSE IF n > 0 THEN 1 ELSE 0

Inf(s) == IF s < 0 THEN NInf ELSE PInf

FNeg(a) == [a EXCEPT !.n = 0 - a.n]

FAdd(a, b) ==
    IF IsNaN(a) \/ IsNaN(b) THEN NaN
    ELSE IF a.k = "inf" /\ b.k = "inf" THEN (IF a.n = b.n THEN a ELSE NaN)
    ELSE IF a.k = "inf" THEN a
    ELSE IF b.k = "inf" THEN b
    ELSE LET l == (a.d \div Gcd(a.d, b.d)) * b.d
         IN  Fin(a.n * (l \div a.d) + b.n * (l \div b.d), l)

FSub(a, b) == FAdd(a, FNeg(b))

FMul(a, b) ==
    IF IsNaN(a) \/ IsNaN(b) THEN NaN
    ELSE IF a.k = "inf" \/ b.k = "inf"
         THEN (IF a.n = 0 \/ b.n = 0 THEN NaN ELSE Inf(Sign(a.n) * Sign(b.n)))
    ELSE IF a.n = 0 \/ b.n = 0 THEN F(0)
    ELSE LET g1 == Gcd(Abs(a.n), b.d)
             g2 == Gcd(Abs(b.n), a.d)
         IN  [k |-> "fin",
              n |-> (a.n \div g1) * (b.n \div g2),
              d |-> (a.d \div g2) * (b.d \div g1)]

FDiv(a, b) ==
    IF IsNaN(a) \/ IsNaN(b) THEN NaN
    ELSE IF b.k = "inf" THEN (IF a.k = "inf" THEN NaN ELSE F(0))
    ELSE IF a.k = "inf" THEN Inf(a.n * (IF b.n < 0 THEN 0 - 1 ELSE 1))
    ELSE IF b.n = 0 THEN (IF a.n = 0 THEN NaN ELSE Inf(Sign(a.n)))
    ELSE FMul(a, [k |-> "fin", n |-> Sign(b.n) * b.d, d |-> Abs(b.n)])

\* a < b as f64 comparison: false as soon as one side is NaN
FLt(a, b) ==
    IF IsNaN(a) \/ IsNaN(b) THEN FALSE
    ELSE IF a.k = "inf" THEN (a.n < 0 /\ b # a)
    ELSE IF b.k = "inf" THEN b.n > 0
    ELSE a.n * b.d < b.n * a.d

FGt(a, b) == FLt(b, a)

\* f64::max and f64::min return the other operand when one is NaN
FMax(a, b) == IF IsNaN(a) THEN b ELSE IF IsNaN(b) THEN a ELSE IF FLt(a, b) THEN b ELSE a

FMin(a, b) == IF IsNaN(a) THEN b ELSE IF IsNaN(b) THEN a ELSE IF FLt(b, a) THEN b ELSE a

\* f64::round: nearest integer, ties away from zero
FRound(a) ==
    IF a.k # "fin" THEN a
    ELSE F(Sign(a.n) * ((2 * Abs(a.n) + a.d) \div (2 * a.d)))

\* `as u32` on an f64: NaN becomes 0, negatives saturate to 0.  The only
\* cast in the program takes an operand already clamped to [0, 1439].
ToU32(a) ==
    IF a.k # "fin" THEN 0
    ELSE IF a.n < 0 THEN 0
    ELSE a.n \div a.d

\* ------------------------------------------------------------- data model
PlotData(m, x, pv) == [minutes |-> m, x |-> x, pv |-> pv]

Ok(v) == [panic |-> FALSE, value |-> v]
Panic == [panic |-> TRUE, value |-> <<>>]

\* ----------------------------------------------------------------- stages
\* fold(0.0, |acc, p| p.max(acc)) over input[lo..hi]; max is associative, so
\* the fold is evaluated by halving the range to keep the recursion shallow
RECURSIVE FoldMax(_, _, _)
FoldMax(input, lo, hi) ==
    IF lo > hi THEN F(0)
    ELSE IF lo = hi THEN FMax(input[lo].pv, F(0))
    ELSE LET mid == (lo + hi) \div 2
         IN  FMax(FoldMax(input, lo, mid), FoldMax(input, mid + 1, hi))

normalize(input) ==
    IF Len(input) = 0 THEN Panic
    ELSE LET end == F(input[Len(input)].minutes)
             max_value == FoldMax(input, 1, Len(input))
         IN  Ok([i \in 1..Len(input) |->
                   PlotData(input[i].minutes,
                            FDiv(F(input[i].minutes), end),
                            FDiv(input[i].pv, max_value))])

Positive(p) == FGt(p.pv, F(0))

\* a plausible slip: the ratio taken the wrong way round
Factor_inverted(start, end) == FDiv(FSub(end, start), F(DayEnd))

Factor(start, end) == FDiv(F(DayEnd), FSub(end, start))

\* a plausible slip: the start of the window is not subtracted
Scaled_noShift(p, start, factor) == FMul(FMax(F(p.minutes), F(0)), factor)

Scaled(p, start, factor) == FMul(FMax(FSub(F(p.minutes), start), F(0)), factor)

RECURSIVE IsPowerOfTwo(_)
IsPowerOfTwo(n) == n = 1 \/ (n > 1 /\ n % 2 = 0 /\ IsPowerOfTwo(n \div 2))

\* minutes.round() on the product (p.minutes - start) * factor.  The exact
\* product is k + 1/2 only at the midpoint of the window; unless the window
\* is a power of two the f64 factor is inexact and the f64 product lies just
\* below or exactly on the tie, so either neighbour can come out: `low`
\* selects which.
RoundScaled(v, start, end, low) ==
    IF /\ low
       /\ IsFinite(v)
       /\ v.d = 2
       /\ v.n > 0
       /\ ~IsPowerOfTwo(end.n - start.n)
    THEN F((v.n - 1) \div 2)
    ELSE FRound(v)

stretch(input, low) ==
    LET result == SelectSeq(input, Positive)
    IN  IF Len(result) = 0 THEN Panic
        ELSE LET start == F(result[1].minutes)
                 end == F(result[Len(result)].minutes)
                 factor == Factor(start, end)
                 minutes(p) == Scaled(p, start, factor)
                 round(p) == RoundScaled(minutes(p), start, end, low)
             IN  Ok([i \in 1..Len(result) |->
                       PlotData(ToU32(FMin(FMax(round(result[i]), F(0)), F(DayEnd))),
                                FDiv(minutes(result[i]), F(MinutesPerHour)),
                                result[i].pv)])

\* a plausible slip: the denominator taken as x2 - x1
Slope_swapped(x1, y1, x2, y2) == FDiv(FSub(y1, y2), F(x2 - x1))

Slope(x1, y1, x2, y2) == FDiv(FSub(y1, y2), F(x1 - x2))

\* the points pushed by one iteration i of the loop over consecutive pairs;
\* first a plausible slip: the inner range written x1..=x2 instead of x1+1..x2
Segment_inclusive(input, i) ==
    LET x1 == input[i].minutes
        x2 == input[i + 1].minutes
        y1 == input[i].pv
        k == Slope(x1, y1, x2, input[i + 1].pv)
        m == FSub(y1, FMul(F(x1), k))
        synth(x) == PlotData(x, FDiv(F(x), F(MinutesPerHour)), FAdd(FMul(F(x), k), m))
    IN  <<input[i]>> \o [j \in 1..(x2 - x1 + 1) |-> synth(x1 + j - 1)]

Segment(input, i) ==
    LET x1 == input[i].minutes
        x2 == input[i + 1].minutes
        y1 == input[i].pv
        y2 == input[i + 1].pv
        k == Slope(x1, y1, x2, y2)
        m == FSub(y1, FMul(F(x1), k))
        synth(x) == PlotData(x, FDiv(F(x), F(MinutesPerHour)), FAdd(FMul(F(x), k), m))
    IN  <<input[i]>> \o [j \in 1..(x2 - x1 - 1) |-> synth(x1 + j)]

RECURSIVE Segments(_, _)
Segments(input, i) ==
    IF i >= Len(input) THEN <<>>
    ELSE Segment(input, i) \o Segments(input, i + 1)

interpolate(input) ==
    IF Len(input) = 0 THEN Panic
    ELSE Ok(Segments(input, 1) \o <<input[Len(input)]>>)

smooth(input) ==
    IF Len(input) = 0 THEN Panic
    ELSE LET n == Len(input)
             mean(i) == PlotData(input[i].minutes, input[i].x,
                           FDiv(FAdd(FAdd(input[i - 1].pv, input[i].pv), input[i + 1].pv), F(3)))
         IN  Ok(<<input[1]>> \o [j \in 1..(n - 2) |-> mean(j + 1)] \o <<input[n]>>)

\* ------------------------------------------------------------- test values
SeqsUpTo(S, lo, hi) == UNION {[1..n -> S] : n \in lo..hi}

NonDecreasing(v) == \A i \in 1..(Len(v) - 1) : v[i].minutes <= v[i + 1].minutes
Increasing(v) == \A i \in 1..(Len(v) - 1) : v[i].minutes < v[i + 1].minutes

UnitMinutes == 0..MaxMinute
\* a negative, a zero and two positive values
PvChoices == {0 - 1, 0, 1, 2}
UnitPoints == {PlotData(m, F(0), F(v)) : m \in UnitMinutes, v \in PvChoices}
UnitInputs == SeqsUpTo(UnitPoints, 0, MaxLen)

\* minutes of the day the records are drawn from: around midnight, noon and
\* the end of the day, in file order with one record per minute
MidDay == DayEnd \div 2

DayMinutes == {0, 1, MidDay, MidDay + 1, DayEnd - 1, DayEnd}

\* pv_power * 10.0: a value the smoothing leaves negative, a zero, a positive one
PowerChoices == {0 - 9, 0, 1}
RecordPoints == {PlotData(m, F(0), F(v)) : m \in DayMinutes, v \in PowerChoices}
Records == {v \in SeqsUpTo(RecordPoints, 1, MaxRecords) : Increasing(v)}

\* ------------------------------------------------- unit-level harness
UnitInit ==
    /\ plt \in UnitInputs
    /\ arg = <<>>
    /\ fn = "none"
    /\ outcome = "none"
    /\ pc = "call"

Return(name, r) ==
    /\ arg' = plt
    /\ fn' = name
    /\ outcome' = IF r.panic THEN "panic" ELSE "ok"
    /\ plt' = r.value

CallSmooth == pc = "call" /\ Return("smooth", smooth(plt)) /\ pc' = "returned"

CallStretch ==
    /\ pc = "call"
    /\ \E low \in BOOLEAN : Return("stretch", stretch(plt, low))
    /\ pc' = "returned"

CallInterpolate == pc = "call" /\ Return("interpolate", interpolate(plt)) /\ pc' = "returned"

CallNormalize == pc = "call" /\ Return("normalize", normalize(plt)) /\ pc' = "returned"

UnitNext == CallSmooth \/ CallStretch \/ CallInterpolate \/ CallNormalize

UnitSpec == UnitInit /\ [][UnitNext]_vars

\* ------------------------------------------------------------ main()
Init ==
    /\ plt \in Records
    /\ arg = <<>>
    /\ fn = "none"
    /\ outcome = "none"
    /\ pc = "smooth1"

Step(name, r, next) ==
    /\ Return(name, r)
    /\ pc' = IF r.panic THEN "panicked" ELSE next

Smooth1 == pc = "smooth1" /\ Step("smooth", smooth(plt), "smooth2")

Smooth2 == pc = "smooth2" /\ Step("smooth", smooth(plt), "stretch")

Stretch ==
    /\ pc = "stretch"
    /\ \E low \in BOOLEAN : Step("stretch", stretch(plt, low), "interpolate")

Interpolate == pc = "interpolate" /\ Step("interpolate", interpolate(plt), "normalize")

Normalize == pc = "normalize" /\ Step("normalize", normalize(plt), "done")

Next == Smooth1 \/ Smooth2 \/ Stretch \/ Interpolate \/ Normalize

Spec == Init /\ [][Next]_vars

\* ------------------------------------------------------------ properties
InDay(v) == \A i \in 1..Len(v) : v[i].minutes \in 0..DayEnd

NumPositive(v) == Cardinality({i \in 1..Len(v) : Positive(v[i])})

AllFinite(v) == \A i \in 1..Len(v) : IsFinite(v[i].x) /\ IsFinite(v[i].pv)

Dense(v) == \A i \in 1..(Len(v) - 1) : v[i + 1].minutes = v[i].minutes + 1

\* number of integer minutes strictly between input points j and j + 1
Gap(v, j) ==
    IF v[j + 1].minutes - v[j].minutes > 1 THEN v[j + 1].minutes - v[j].minutes - 1 ELSE 0

\* index at which input point i is expected in the interpolated output
RECURSIVE Pos(_, _)
Pos(v, i) == IF i <= 1 THEN i ELSE Pos(v, i - 1) + 1 + Gap(v, i - 1)

\* v1 + (v2 - v1) * (t - t1) / (t2 - t1)
Linear(t, t1, v1, t2, v2) ==
    FAdd(v1, FDiv(FMul(FSub(v2, v1), F(t - t1)), F(t2 - t1)))

\* the last stage that ran is `name`: arg is its input, plt and outcome its result
Called(name) == fn = name

\* C1: for every non-empty input of interpolate with non-decreasing minutes
\* (duplicates allowed) the output has one entry per integer minute from the
\* first to the last input minute: adjacent minutes differ by exactly 1 and
\* the length is lastMinute - firstMinute + 1.
C1_DenseOutput ==
    (Called("interpolate") /\ Len(arg) > 0 /\ NonDecreasing(arg)) =>
        /\ outcome = "ok"
        /\ Len(plt) = arg[Len(arg)].minutes - arg[1].minutes + 1
        /\ \A i \in 1..(Len(plt) - 1) : plt[i + 1].minutes - plt[i].minutes = 1

\* C2: stretch on a sequence without any pv > 0 (the empty one included)
\* ends in a reported error value, neither a crash nor an empty result.
C2_NoPositiveIsError ==
    (Called("stretch") /\ NumPositive(arg) = 0) => outcome = "error"

\* C3: smooth on a sequence of length 0, 1 or 2 ends in a distinguishable
\* precondition error: it neither crashes nor returns a sequence.
C3_ShortIsError ==
    (Called("smooth") /\ Len(arg) < 3) => outcome = "error"

\* C4: normalize on a non-empty sequence whose maximum pv floored at 0 is 0
\* guards the division: every output pv is finite.
C4_ZeroScaleGuarded ==
    (Called("normalize") /\ Len(arg) > 0 /\ FoldMax(arg, 1, Len(arg)) = F(0)) =>
        /\ outcome = "ok"
        /\ \A i \in 1..Len(plt) : IsFinite(plt[i].pv)

StretchPre ==
    Called("stretch") /\ Increasing(arg) /\ InDay(arg) /\ NumPositive(arg) >= 2

\* C5: for every input of stretch sorted by strictly increasing minutes in
\* 0..1439 with at least two entries with pv > 0, the output starts at
\* minute 0, ends at minute 1439 and its minutes never decrease.
C5_StretchSpansDay ==
    StretchPre =>
        /\ outcome = "ok"
        /\ plt[1].minutes = 0
        /\ plt[Len(plt)].minutes = DayEnd
        /\ NonDecreasing(plt)

\* a stretch whose window does not start at minute 0 and is narrower than a day
C5_Witness ==
    /\ StretchPre
    /\ outcome = "ok"
    /\ Len(plt) = 3
    /\ arg[1].minutes > 0
    /\ plt[2].minutes \notin {0, DayEnd}

\* C6: for every input of stretch (reached through the smooth calls) sorted
\* by strictly increasing minutes in 0..1439 with at least two entries with
\* pv > 0, the minutes stretch produces are strictly increasing: no two
\* kept entries collide on the same minute.
C6_StretchNoDuplicates ==
    StretchPre => (outcome = "ok" /\ Increasing(plt))

\* two kept entries one minute apart in a window of almost a whole day,
\* where the scale factor is closest to 1
C6_Witness ==
    /\ StretchPre
    /\ outcome = "ok"
    /\ Len(plt) = 3
    /\ arg[Len(arg)].minutes - arg[1].minutes = DayEnd - 1
    /\ \E i \in 1..(Len(arg) - 1) : arg[i + 1].minutes = arg[i].minutes + 1

\* C7: when exactly one entry survives the pv > 0 filter, stretch returns
\* that entry unchanged or reports an explicit error; it never rewrites the
\* minute or derives x from a division by the zero-width window.
C7_SinglePoint ==
    (Called("stretch") /\ NumPositive(arg) = 1) =>
        \/ outcome = "error"
        \/ (outcome = "ok" /\ plt = SelectSeq(arg, Positive))

\* C8: the output of interpolate consists of the input points, unchanged and
\* in their order, and between consecutive input points (t1, v1), (t2, v2)
\* with t1 < t2 one synthesized point per integer minute t strictly between,
\* with pv = v1 + (v2 - v1) * (t - t1) / (t2 - t1) and x = t / 60.
C8_Linear ==
    (Called("interpolate") /\ outcome = "ok") =>
        /\ Len(plt) = Pos(arg, Len(arg))
        /\ \A i \in 1..Len(arg) : plt[Pos(arg, i)] = arg[i]
        /\ \A i \in 1..(Len(arg) - 1) :
              \A t \in (arg[i].minutes + 1)..(arg[i + 1].minutes - 1) :
                 plt[Pos(arg, i) + t - arg[i].minutes] =
                    PlotData(t, FDiv(F(t), F(MinutesPerHour)),
                             Linear(t, arg[i].minutes, arg[i].pv,
                                    arg[i + 1].minutes, arg[i + 1].pv))

\* two input points three minutes apart with different pv: two points are
\* synthesized on a sloped line
C8_Witness ==
    /\ Called("interpolate")
    /\ outcome = "ok"
    /\ \E i \in 1..(Len(arg) - 1) :
          /\ arg[i + 1].minutes - arg[i].minutes >= 3
          /\ arg[i].pv # arg[i + 1].pv
          /\ plt[Pos(arg, i) + 1].pv \notin {arg[i].pv, arg[i + 1].pv}

\* C9: for every dense non-empty input of normalize with pv >= 0 and
\* maximum pv > 0, the output has the input's length and minutes, every x in
\* [0, 1] with the last x exactly 1, every pv >= 0 and the maximum input pv
\* mapped to exactly 1.
C9_Normalized ==
    (/\ Called("normalize")
     /\ Len(arg) > 0
     /\ Dense(arg)
     /\ \A i \in 1..Len(arg) : ~FLt(arg[i].pv, F(0))
     /\ FGt(FoldMax(arg, 1, Len(arg)), F(0))) =>
        /\ outcome = "ok"
        /\ Len(plt) = Len(arg)
        /\ \A i \in 1..Len(plt) :
              /\ plt[i].minutes = arg[i].minutes
              /\ IsFinite(plt[i].x)
              /\ ~FLt(plt[i].x, F(0))
              /\ ~FGt(plt[i].x, F(1))
              /\ IsFinite(plt[i].pv)
              /\ ~FLt(plt[i].pv, F(0))
              /\ (arg[i].pv = FoldMax(arg, 1, Len(arg)) => plt[i].pv = F(1))
        /\ plt[Len(plt)].x = F(1)

HasZeroWidth(v) == \E i \in 1..(Len(v) - 1) : v[i].minutes = v[i + 1].minutes

\* C10: when consecutive input points of interpolate share a minute, the
\* pair is passed through: both points are emitted unchanged next to each
\* other, nothing is synthesized between them, and no output entry has a pv
\* or x that is NaN or infinite.
C10_ZeroWidth ==
    (Called("interpolate") /\ HasZeroWidth(arg)) =>
        /\ outcome = "ok"
        /\ AllFinite(plt)
        /\ \A i \in 1..(Len(arg) - 1) :
              arg[i].minutes = arg[i + 1].minutes =>
                 /\ Pos(arg, i) + 1 <= Len(plt)
                 /\ plt[Pos(arg, i)] = arg[i]
                 /\ plt[Pos(arg, i) + 1] = arg[i + 1]

\* a zero-width pair with different pv (the slope is infinite) next to a
\* pair that does need synthesis
C10_Witness ==
    /\ Called("interpolate")
    /\ outcome = "ok"
    /\ Len(plt) > Len(arg)
    /\ \E i \in 1..(Len(arg) - 1) :
          /\ arg[i].minutes = arg[i + 1].minutes
          /\ arg[i].pv # arg[i + 1].pv
          /\ Slope(arg[i].minutes, arg[i].pv, arg[i + 1].minutes, arg[i + 1].pv).k = "inf"

====
